---- MODULE Spec2Model ----
(***************************************************************************)
(* Model of the question-answering flow of the notebook                    *)
(* demo-python/code/indexers/csv.ipynb: get_query_options (the planning    *)
(* model call) and answer_query (search call, table rendering, answering   *)
(* model call).  The three remote services are the environment: each       *)
(* outbound call either returns a response drawn from a small set or       *)
(* raises.                                                                 *)
(*                                                                         *)
(* Encoding.  A Python string is a sequence of symbols, so "" is <<>>.     *)
(* An Optional value is a sequence of length at most one: None is <<>>     *)
(* and a present value v is <<v>>.                                          *)
(*                                                                         *)
(* The cells above the questions (configuration, upload of the sample      *)
(* file, data source, index, skillset, indexer, hybrid search) are actions *)
(* too.  A value of the environment and a configured name is a TLA+        *)
(* string, "" being the empty one.                                         *)
(***************************************************************************)
EXTENDS Integers, Sequences, FiniteSets, TLC

VARIABLES
    pc,                      \* where answer_query stands
    query,                   \* the question of the running call
    query_options,           \* local of answer_query: the parsed plan
    plan_request,            \* request of the planning model call
    planner_reply,           \* what the planning model call returned
    search_request,          \* keyword arguments of the search call
    search_results,          \* rows the search call returned
    results_markdown_table,  \* local of answer_query: the rendered table
    chat_request,            \* request of the answering model call
    answer_reply,            \* what the answering model call returned
    returned,                \* the value answer_query returned
    raised,                  \* the error answer_query raised
    calls,                   \* outbound calls of the running call, in order
    history,                 \* the finished calls of the run, as observed
    env,                     \* the environment values after load_dotenv
    config,                  \* the globals of the configuration cell
    cell,                    \* the notebook cell that runs next
    setup_error,             \* the error that stopped the run of the notebook
    setup_calls,             \* outbound calls of the cells of this run, in order
    storage,                 \* blob storage: the container and its blobs
    service,                 \* search service: resource definitions, indexer run, documents
    data_source,             \* global data_source: the connection the service returned
    index_fields,            \* global fields: the schema of the index
    planner_prompt,          \* global query_options_system_prompt
    openai_client,           \* global client: the arguments of AzureOpenAI
    hybrid_results,          \* rows printed by the hybrid search cell
    first_run,               \* the resources as the first complete run left them
    runs                     \* runs of the notebook so far

callVars == <<pc, query, query_options, plan_request, planner_reply,
              search_request, search_results, results_markdown_table,
              chat_request, answer_reply, returned, raised, calls, history>>

notebookVars == <<env, config, cell, setup_error, setup_calls, storage, service,
                  data_source, index_fields, planner_prompt, openai_client,
                  hybrid_results, first_run, runs>>

vars == <<callVars, notebookVars>>

----------------------------------------------------------------------------
(* Bounds of the model *)

\* longest orderBy string the planner returns, in symbols
MaxLen == 2
\* longest filter string the planner returns, in comparisons
MaxFilterLen == 1
\* most rows the search service returns in the model (at most Top)
MaxRows == 2
\* number of answer_query calls of a run whose finished calls are observed
MaxCalls == 3
\* environment values that differ from the sample environment
MaxEnvEdits == 1
\* runs of the notebook against the same services
MaxRuns == 2

----------------------------------------------------------------------------
(* Optional values and strings *)

None == <<>>

Some(v) == <<v>>

\* Python truthiness of an Optional[str]: neither None nor ""
Truthy(o) == o # None /\ o[1] # <<>>

\* all strings of at most n symbols over the alphabet S
StringsUpTo(S, n) == UNION {[1..k -> S] : k \in 0..n}

Optional(S) == {None} \cup {Some(v) : v \in S}

RECURSIVE SplitFrom(_, _, _)
\* str.split(sep) for a one-symbol separator: cur is the piece being read
SplitFrom(s, sep, cur) ==
    IF s = <<>> THEN <<cur>>
    ELSE IF Head(s) = sep THEN <<cur>> \o SplitFrom(Tail(s), sep, <<>>)
    ELSE SplitFrom(Tail(s), sep, Append(cur, Head(s)))

Split(s, sep) == SplitFrom(s, sep, <<>>)

RECURSIVE Join(_, _)
\* sep.join(parts)
Join(parts, sep) ==
    IF parts = <<>> THEN <<>>
    ELSE IF Len(parts) = 1 THEN parts[1]
    ELSE parts[1] \o <<sep>> \o Join(Tail(parts), sep)

Range(s) == {s[i] : i \in 1..Len(s)}

----------------------------------------------------------------------------
(* The index schema and the prompt built from it *)

\* name and filterable flag of each SearchField; a flag that is not given is
\* falsy
fields == <<
    [name |-> "AzureSearch_DocumentKey", filterable |-> FALSE],
    [name |-> "ID",                filterable |-> TRUE],
    [name |-> "Name",              filterable |-> TRUE],
    [name |-> "Age",               filterable |-> TRUE],
    [name |-> "Title",             filterable |-> FALSE],
    [name |-> "Description",       filterable |-> FALSE],
    [name |-> "TitleVector",       filterable |-> FALSE],
    [name |-> "DescriptionVector", filterable |-> FALSE] >>

FieldNames == {fields[i].name : i \in 1..Len(fields)}

IsFilterable(f) == f.filterable

\* variant: the names of all fields, whatever their flag
FilterableNamesOf_all(fs) == [i \in 1..Len(fs) |-> fs[i].name]

\* [field.name for field in fs if field.filterable]
FilterableNamesOf(fs) ==
    LET sel == SelectSeq(fs, IsFilterable)
    IN  [i \in 1..Len(sel) |-> sel[i].name]

\* ", ".join(...) over the filterable names of fs
FilterableFieldsOf(fs) ==
    Join([i \in 1..Len(FilterableNamesOf(fs)) |-> <<FilterableNamesOf(fs)[i]>>], ", ")

\* the f-string of query_options_system_prompt for the schema fs
SystemPromptOf(fs) ==
    <<"Create options for Azure Search queries. If you are creating filters, you may only use the following fields: ">>
    \o FilterableFieldsOf(fs)
    \o <<". Only generate filters when you are trying to answer a question involving numbers.">>

FilterableNames == FilterableNamesOf(fields)

filterable_fields == FilterableFieldsOf(fields)

query_options_system_prompt == SystemPromptOf(fields)

answer_query_results_system_prompt ==
    <<"The following question requires search results to provide an answer. Use the provided search results to answer the question. If you can't answer the question using the search results, say I don't know.">>

----------------------------------------------------------------------------
(* What the environment can send back *)

\* the questions asked in the notebook's sample cells
Queries == {"Who is the youngest employee?", "Is there an employee named Scarlett?"}

\* symbols of an orderBy string: a clause, the separator, a wrong separator
OrderBySyms == {"Age", ",", ";"}

\* symbols of a filter string: comparisons, each on one field
FilterSyms == {[field |-> "Age", cmp |-> "gt 40"], [field |-> "Title", cmp |-> "eq 'Curator'"]}

\* the fields a filter string references
FieldsOf(filter) == IF filter = None THEN {} ELSE {filter[1][i].field : i \in 1..Len(filter[1])}

\* an order-by clause as the orderBy field describes it: a field name with an
\* optional direction; here the one clause symbol
ClauseSyms == {"Age"}

WellFormedClause(c) == Len(c) = 1 /\ c[1] \in ClauseSyms

\* a non-empty orderBy string that is not a comma-separated list of clauses
Malformed(orderBy) ==
    /\ Truthy(orderBy)
    /\ \E i \in 1..Len(Split(orderBy[1], ",")) : ~WellFormedClause(Split(orderBy[1], ",")[i])

SearchTexts == {<<>>, <<"*">>, <<"Alice">>}

\* class QueryOptions: three Optional[str] fields
QueryOptionsSet ==
    [orderBy : Optional(StringsUpTo(OrderBySyms, MaxLen)),
     filter  : Optional(StringsUpTo(FilterSyms, MaxFilterLen)),
     search  : Optional(SearchTexts)]

\* message.parsed of the planning call: a QueryOptions, or None when the
\* model's message is a refusal
ParsedSet == Optional(QueryOptionsSet)

\* keys of a document of the search response
ResultKeys == {"@search.score", "ID", "Age", "Name", "Title", "Description"}

Row(score, id, age, name, title, description) ==
    [k \in ResultKeys |->
        CASE k = "@search.score" -> score
          [] k = "ID"            -> id
          [] k = "Age"           -> age
          [] k = "Name"          -> name
          [] k = "Title"         -> title
          [] k = "Description"   -> description]

\* two rows of the sample data, as printed by the notebook
SampleRows ==
    { Row("0.033", "2", 20, "Jane Smith", "Veterinarian", "Provides medical care to animals"),
      Row("0.032", "15", 21, "Isabella Martin", "Researcher", "Conducts research on wildlife") }

\* result sets the search service can return
ResultSets == StringsUpTo(SampleRows, MaxRows)

\* message.content of the answering call
Answers == {"I don't know", "The youngest employee is Jane Smith, who is 20 years old."}

----------------------------------------------------------------------------
(* answer_query, the pure parts *)

Top == 5

KNearestNeighbors == 50

columns == <<"ID", "Age", "Name", "Title", "Description">>

\* variant: a vector query is attached for every search text that is not None
VectorQueries_always(query_option_search) ==
    IF query_option_search # None
    THEN Some(<< [text |-> query_option_search[1],
                  k_nearest_neighbors |-> KNearestNeighbors,
                  fields |-> "TitleVector,DescriptionVector"] >>)
    ELSE None

\* variant: vector_queries is not reset and keeps the previous call's value
VectorQueries_sticky(query_option_search) ==
    IF Truthy(query_option_search) /\ query_option_search[1] # <<"*">>
    THEN Some(<< [text |-> query_option_search[1],
                  k_nearest_neighbors |-> KNearestNeighbors,
                  fields |-> "TitleVector,DescriptionVector"] >>)
    ELSE IF Len(history) > 0 /\ history[Len(history)].search_request # None
    THEN history[Len(history)].search_request[1].vector_queries
    ELSE None

\* vector_queries: None, or a one-element list holding a VectorizableTextQuery
VectorQueries(query_option_search) ==
    IF Truthy(query_option_search) /\ query_option_search[1] # <<"*">>
    THEN Some(<< [text |-> query_option_search[1],
                  k_nearest_neighbors |-> KNearestNeighbors,
                  fields |-> "TitleVector,DescriptionVector"] >>)
    ELSE None

\* variant: the order-by of the plan is not handed on
OrderBy_none(query_option_order_by) == None

\* order_by: None, or the list query_option_order_by.split(","); str.split
\* raises nothing, so the except branch is never taken
OrderBy(query_option_order_by) ==
    IF Truthy(query_option_order_by)
    THEN Some(Split(query_option_order_by[1], ","))
    ELSE None

\* variant: the filter argument is left out
FilterArg_none(options) == None

\* filter=query_options.filter
FilterArg(options) == options.filter

\* variant: top takes the vector query's neighbour count
SearchArgs_top(options) ==
    [search_text |-> options.search,
     vector_queries |-> VectorQueries(options.search),
     top |-> KNearestNeighbors,
     order_by |-> OrderBy(options.orderBy),
     query_type |-> None,
     semantic_configuration_name |-> None,
     filter |-> FilterArg(options),
     select |-> columns]

\* the keyword arguments of search_client.search
SearchArgs(options) ==
    [search_text |-> options.search,
     vector_queries |-> VectorQueries(options.search),
     top |-> Top,
     order_by |-> OrderBy(options.orderBy),
     query_type |-> None,
     semantic_configuration_name |-> None,
     filter |-> FilterArg(options),
     select |-> columns]

\* [ { column: result[column] for column in columns } for result in search_results ]
Results(rows) ==
    [i \in 1..Len(rows) |-> [c \in Range(columns) |-> rows[i][c]]]

\* columns of pd.DataFrame(results): the keys of the dicts, none for an
\* empty list
DataFrameColumns(results) == IF results = <<>> THEN <<>> ELSE columns

\* a cell of the markdown table: a number is printed in decimal, a string
\* as it is
FormatCell(c, v) == IF c = "Age" THEN ToString(v) ELSE v

\* variant: only the first row of the frame is rendered
ToMarkdown_head(results) ==
    LET cols == DataFrameColumns(results)
        n == IF Len(results) > 1 THEN 1 ELSE Len(results)
    IN  [header |-> cols,
         rows   |-> [i \in 1..n |->
                        [j \in 1..Len(cols) |-> FormatCell(cols[j], results[i][cols[j]])]]]

\* pd.DataFrame(results).to_markdown(index=False): the header cells and one
\* line of cells per row of the frame
ToMarkdown(results) ==
    LET cols == DataFrameColumns(results)
    IN  [header |-> cols,
         rows   |-> [i \in 1..Len(results) |->
                        [j \in 1..Len(cols) |-> FormatCell(cols[j], results[i][cols[j]])]]]

\* messages of the planning call
PlanMessages(q) ==
    << [role |-> "system", content |-> planner_prompt],
       [role |-> "user",   content |-> q] >>

\* variant: the answering call is sent without its system instruction
AnswerMessages_plain(table, q) ==
    << [role |-> "system", content |-> <<>>],
       [role |-> "user",   content |-> table],
       [role |-> "user",   content |-> q] >>

\* messages of the answering call
AnswerMessages(table, q) ==
    << [role |-> "system", content |-> answer_query_results_system_prompt],
       [role |-> "user",   content |-> table],
       [role |-> "user",   content |-> q] >>

\* variant: the returned plan has its missing search text filled in
ReturnValue_defaulted(content, options, table) ==
    [answer |-> content,
     query_options |-> [options EXCEPT !.search = IF @ = None THEN Some(<<"*">>) ELSE @],
     results |-> table]

\* return response.choices[0].message.content, query_options, results_markdown_table
ReturnValue(content, options, table) ==
    [answer |-> content, query_options |-> options, results |-> table]

----------------------------------------------------------------------------
(* The configuration cell *)

EnvNames ==
    {"AZURE_SEARCH_SERVICE_ENDPOINT", "AZURE_SEARCH_ADMIN_KEY", "AZURE_SEARCH_INDEX",
     "BLOB_CONNECTION_STRING", "SEARCH_BLOB_DATASOURCE_CONNECTION_STRING",
     "BLOB_CONTAINER_NAME", "AZURE_OPENAI_ENDPOINT", "AZURE_OPENAI_KEY",
     "AZURE_OPENAI_EMBEDDING_DEPLOYMENT", "AZURE_OPENAI_EMBEDDING_MODEL_NAME",
     "AZURE_OPENAI_EMBEDDING_DIMENSIONS", "AZURE_OPENAI_CHATGPT_DEPLOYMENT",
     "AZURE_OPENAI_API_VERSION"}

\* the names read with os.environ[...], in the order the cell reads them
RequiredNames ==
    <<"AZURE_SEARCH_SERVICE_ENDPOINT", "BLOB_CONNECTION_STRING", "AZURE_OPENAI_ENDPOINT">>

\* a value of the environment is a string here; "" is the empty one
NonEmptyValue(name) ==
    CASE name = "AZURE_SEARCH_SERVICE_ENDPOINT" -> "https://search.example"
      [] name = "AZURE_SEARCH_ADMIN_KEY" -> "admin-key"
      [] name = "AZURE_SEARCH_INDEX" -> "my-index"
      [] name = "BLOB_CONNECTION_STRING" -> "blob-connection"
      [] name = "SEARCH_BLOB_DATASOURCE_CONNECTION_STRING" -> "resource-id-connection"
      [] name = "BLOB_CONTAINER_NAME" -> "my-container"
      [] name = "AZURE_OPENAI_ENDPOINT" -> "https://openai.example"
      [] name = "AZURE_OPENAI_KEY" -> "openai-key"
      [] name = "AZURE_OPENAI_EMBEDDING_DEPLOYMENT" -> "my-embedding"
      [] name = "AZURE_OPENAI_EMBEDDING_MODEL_NAME" -> "text-embedding-3-small"
      [] name = "AZURE_OPENAI_EMBEDDING_DIMENSIONS" -> "3072"
      [] name = "AZURE_OPENAI_CHATGPT_DEPLOYMENT" -> "my-chat"
      [] name = "AZURE_OPENAI_API_VERSION" -> "2025-01-01"

EnvValues(name) == {None, Some(""), Some(NonEmptyValue(name))}

\* the required values set, every other value absent
SampleEnv ==
    [name \in EnvNames |->
        IF \E i \in 1..Len(RequiredNames) : RequiredNames[i] = name
        THEN Some(NonEmptyValue(name)) ELSE None]

\* the k-th value of a name other than its sample value
OtherValue(name, k) ==
    IF SampleEnv[name] = None
    THEN (IF k = 1 THEN Some("") ELSE Some(NonEmptyValue(name)))
    ELSE (IF k = 1 THEN None ELSE Some(""))

\* the environments that differ from the sample one in at most MaxEnvEdits values
Envs ==
    UNION { { [name \in EnvNames |-> IF name \in S THEN OtherValue(name, k[name]) ELSE SampleEnv[name]] :
                k \in [S -> {1, 2}] } :
            S \in {T \in SUBSET EnvNames : Cardinality(T) <= MaxEnvEdits} }

\* truthiness of an optional environment string
TruthyValue(o) == o # None /\ o[1] # ""

\* os.getenv(name, default): the default only when the name is absent
GetEnv(e, name, default) == IF e[name] = None THEN default ELSE e[name][1]

\* int(s) of the strings the model draws; None is a ValueError
ParseInt(s) == IF s = "3072" THEN Some(3072) ELSE None

\* variant: a key that is set, even to "", selects the key credential
SearchCredential_set(e) ==
    IF e["AZURE_SEARCH_ADMIN_KEY"] # None
    THEN [kind |-> "AzureKeyCredential", key |-> e["AZURE_SEARCH_ADMIN_KEY"]]
    ELSE [kind |-> "DefaultAzureCredential", key |-> None]

\* AzureKeyCredential(os.getenv(KEY)) if os.getenv(KEY) else DefaultAzureCredential()
SearchCredential(e) ==
    IF TruthyValue(e["AZURE_SEARCH_ADMIN_KEY"])
    THEN [kind |-> "AzureKeyCredential", key |-> e["AZURE_SEARCH_ADMIN_KEY"]]
    ELSE [kind |-> "DefaultAzureCredential", key |-> None]

azure_openai_chat_deployment == "gpt-4o"

\* variant: a required value that is absent is read as None and loading goes on
ConfigError_lenient(e) ==
    IF e["AZURE_OPENAI_EMBEDDING_DIMENSIONS"] # None
       /\ ParseInt(e["AZURE_OPENAI_EMBEDDING_DIMENSIONS"][1]) = None
    THEN Some([type |-> "ValueError", name |-> "AZURE_OPENAI_EMBEDDING_DIMENSIONS"])
    ELSE None

\* the exception of the configuration cell, None when it runs through:
\* os.environ[name] raises KeyError for an absent name, int() raises
\* ValueError; the statements run in the order of the cell
ConfigError(e) ==
    IF e["AZURE_SEARCH_SERVICE_ENDPOINT"] = None
    THEN Some([type |-> "KeyError", name |-> "AZURE_SEARCH_SERVICE_ENDPOINT"])
    ELSE IF e["BLOB_CONNECTION_STRING"] = None
    THEN Some([type |-> "KeyError", name |-> "BLOB_CONNECTION_STRING"])
    ELSE IF e["AZURE_OPENAI_ENDPOINT"] = None
    THEN Some([type |-> "KeyError", name |-> "AZURE_OPENAI_ENDPOINT"])
    ELSE IF e["AZURE_OPENAI_EMBEDDING_DIMENSIONS"] # None
            /\ ParseInt(e["AZURE_OPENAI_EMBEDDING_DIMENSIONS"][1]) = None
    THEN Some([type |-> "ValueError", name |-> "AZURE_OPENAI_EMBEDDING_DIMENSIONS"])
    ELSE None

\* a required value as the lenient reading gives it: "" when absent
Required(e, name) == GetEnv(e, name, "")

\* the globals the configuration cell assigns when it runs through
LoadConfig(e) ==
    [endpoint |-> Required(e, "AZURE_SEARCH_SERVICE_ENDPOINT"),
     credential |-> SearchCredential(e),
     index_name |-> GetEnv(e, "AZURE_SEARCH_INDEX", "csv-vec"),
     blob_connection_string |-> Required(e, "BLOB_CONNECTION_STRING"),
     search_blob_connection_string |->
        GetEnv(e, "SEARCH_BLOB_DATASOURCE_CONNECTION_STRING", Required(e, "BLOB_CONNECTION_STRING")),
     blob_container_name |-> GetEnv(e, "BLOB_CONTAINER_NAME", "csv-vec"),
     azure_openai_endpoint |-> Required(e, "AZURE_OPENAI_ENDPOINT"),
     azure_openai_key |-> e["AZURE_OPENAI_KEY"],
     azure_openai_embedding_deployment |->
        GetEnv(e, "AZURE_OPENAI_EMBEDDING_DEPLOYMENT", "text-embedding-3-large"),
     azure_openai_model_name |->
        GetEnv(e, "AZURE_OPENAI_EMBEDDING_MODEL_NAME", "text-embedding-3-large"),
     azure_openai_model_dimensions |->
        IF e["AZURE_OPENAI_EMBEDDING_DIMENSIONS"] = None THEN 1024
        ELSE ParseInt(e["AZURE_OPENAI_EMBEDDING_DIMENSIONS"][1])[1],
     azure_openai_chat_deployment |->
        GetEnv(e, "AZURE_OPENAI_CHATGPT_DEPLOYMENT", azure_openai_chat_deployment),
     azure_openai_api_version |-> GetEnv(e, "AZURE_OPENAI_API_VERSION", "2024-10-21")]

\* the arguments of AzureOpenAI(...): the key, and the token provider only
\* when there is no key
OpenAIClient(c) ==
    [api_version |-> c.azure_openai_api_version,
     azure_endpoint |-> c.azure_openai_endpoint,
     api_key |-> c.azure_openai_key,
     azure_ad_token_provider |->
        IF ~TruthyValue(c.azure_openai_key) THEN Some("token_provider") ELSE None]

----------------------------------------------------------------------------
(* The cells that provision storage and the search service.  The cells run
   in notebook order (Run All): a cell that raises ends the run. *)

CallOk(op) == [op |-> op, result |-> "ok"]

CallFailed(op) == [op |-> op, result |-> "fail"]

\* the csv file of csv_data, as glob finds it
LocalFile == [name |-> "employees.csv", content |-> "sample rows"]

BlobExists(st, name) == \E b \in st.blobs : b.name = name

\* the states blob storage can be in before the first run
InitialStorages ==
    { [container |-> FALSE, blobs |-> {}],
      [container |-> TRUE,  blobs |-> {}],
      [container |-> TRUE,  blobs |-> {[name |-> LocalFile.name, content |-> "older rows"]}] }

\* variant: create the container and upload without asking whether they exist
UploadCalls_unguarded(st) == <<"create_container", "upload_blob">>

\* the storage calls of upload_sample_documents, in order
UploadCalls(st) ==
    <<"container.exists">>
    \o (IF ~st.container THEN <<"create_container">> ELSE <<>>)
    \o <<"blob.exists">>
    \o (IF ~BlobExists(st, LocalFile.name) THEN <<"upload_blob">> ELSE <<>>)

\* the storage service refuses to create what exists (ResourceExistsError)
Conflict(op, st) ==
    \/ op = "create_container" /\ st.container
    \/ op = "upload_blob" /\ BlobExists(st, LocalFile.name)

StorageAfter(op, st) ==
    CASE op = "create_container" -> [st EXCEPT !.container = TRUE]
      [] op = "upload_blob"      -> [st EXCEPT !.blobs = @ \cup {LocalFile}]
      [] OTHER                   -> st

RECURSIVE RunUpload(_, _, _, _)
\* the calls L one after the other; the call number fail_at fails in the
\* service, and the first call that raises ends the cell
RunUpload(L, st, log, fail_at) ==
    IF L = <<>> THEN [storage |-> st, log |-> log, error |-> None]
    ELSE IF Conflict(Head(L), st)
    THEN [storage |-> st, log |-> Append(log, CallFailed(Head(L))),
          error |-> Some([type |-> "ResourceExistsError", name |-> Head(L)])]
    ELSE IF fail_at = 1
    THEN [storage |-> st, log |-> Append(log, CallFailed(Head(L))),
          error |-> Some([type |-> "HttpResponseError", name |-> Head(L)])]
    ELSE RunUpload(Tail(L), StorageAfter(Head(L), st), Append(log, CallOk(Head(L))), fail_at - 1)

\* SearchIndexerDataSourceConnection(...)
DataSourceDef(c) ==
    [name |-> <<c.index_name, "-blob">>,
     type |-> "azureblob",
     connection_string |-> c.search_blob_connection_string,
     container |-> c.blob_container_name]

\* SearchIndex(name=index_name, fields=fields, ...)
IndexDef(c, fs) == [name |-> c.index_name, fields |-> fs]

skillset_name(c) == <<c.index_name, "-skillset">>

SkillsetDef(c) ==
    [name |-> skillset_name(c),
     deployment_name |-> c.azure_openai_embedding_deployment,
     model_name |-> c.azure_openai_model_name,
     dimensions |-> c.azure_openai_model_dimensions]

indexer_name(c) == <<c.index_name, "-indexer">>

\* SearchIndexer(...): ds is the global data_source
IndexerDef(c, ds) ==
    [name |-> indexer_name(c),
     skillset_name |-> skillset_name(c),
     target_index_name |-> c.index_name,
     data_source_name |-> ds.name]

\* the rows the indexer reads from a blob
RowsOf(content) ==
    IF content = "sample rows" THEN SampleRows
    ELSE {r \in SampleRows : r["ID"] = "2"}

DocsOf(blobs) == UNION {RowsOf(b.content) : b \in blobs}

EmptyService ==
    [data_source |-> None, index |-> None, skillset |-> None, indexer |-> None,
     status |-> "never run", docs |-> {}]

\* container, blobs and resource definitions
Resources ==
    [container |-> storage.container,
     blobs |-> storage.blobs,
     data_source |-> service.data_source,
     index |-> service.index,
     skillset |-> service.skillset,
     indexer |-> service.indexer]

\* top of the hybrid search cell
HybridTop == 3

\* the rows the hybrid search can list for the documents docs
HybridListings(docs) ==
    {l \in StringsUpTo(docs, HybridTop) :
        /\ \A i, j \in 1..Len(l) : i # j => l[i] # l[j]
        /\ Len(l) = IF Cardinality(docs) > HybridTop THEN HybridTop ELSE Cardinality(docs)}

\* the configuration cell: the globals are assigned, or the cell raises
ConfigCell ==
    /\ cell = "config"
    /\ IF ConfigError(env) = None
       THEN /\ config' = Some(LoadConfig(env))
            /\ cell' = "upload"
            /\ UNCHANGED setup_error
       ELSE /\ setup_error' = ConfigError(env)
            /\ cell' = "failed"
            /\ UNCHANGED config
    /\ UNCHANGED <<env, setup_calls, storage, service, data_source, index_fields,
                   planner_prompt, openai_client, hybrid_results, first_run, runs>>
    /\ UNCHANGED callVars

\* upload_sample_documents(...)
UploadCell(fail_at) ==
    /\ cell = "upload"
    /\ LET run == RunUpload(UploadCalls(storage), storage, setup_calls, fail_at)
       IN  /\ storage' = run.storage
           /\ setup_calls' = run.log
           /\ setup_error' = run.error
           /\ cell' = IF run.error = None THEN "datasource" ELSE "failed"
    /\ UNCHANGED <<env, config, service, data_source, index_fields,
                   planner_prompt, openai_client, hybrid_results, first_run, runs>>
    /\ UNCHANGED callVars

\* data_source = indexer_client.create_or_update_data_source_connection(...)
DataSourceCell(ok) ==
    /\ cell = "datasource"
    /\ IF ok
       THEN /\ service' = [service EXCEPT !.data_source = Some(DataSourceDef(config[1]))]
            /\ data_source' = Some(DataSourceDef(config[1]))
            /\ setup_calls' = Append(setup_calls, CallOk("create_or_update_data_source_connection"))
            /\ cell' = "index"
            /\ UNCHANGED setup_error
       ELSE /\ setup_calls' = Append(setup_calls, CallFailed("create_or_update_data_source_connection"))
            /\ setup_error' = Some([type |-> "HttpResponseError",
                                    name |-> "create_or_update_data_source_connection"])
            /\ cell' = "failed"
            /\ UNCHANGED <<service, data_source>>
    /\ UNCHANGED <<env, config, storage, index_fields, planner_prompt, openai_client,
                   hybrid_results, first_run, runs>>
    /\ UNCHANGED callVars

\* fields = [...]; index_client.create_or_update_index(index)
IndexCell(ok) ==
    /\ cell = "index"
    /\ index_fields' = fields
    /\ IF ok
       THEN /\ service' = [service EXCEPT !.index = Some(IndexDef(config[1], fields))]
            /\ setup_calls' = Append(setup_calls, CallOk("create_or_update_index"))
            /\ cell' = "skillset"
            /\ UNCHANGED setup_error
       ELSE /\ setup_calls' = Append(setup_calls, CallFailed("create_or_update_index"))
            /\ setup_error' = Some([type |-> "HttpResponseError", name |-> "create_or_update_index"])
            /\ cell' = "failed"
            /\ UNCHANGED service
    /\ UNCHANGED <<env, config, storage, data_source, planner_prompt, openai_client,
                   hybrid_results, first_run, runs>>
    /\ UNCHANGED callVars

\* client.create_or_update_skillset(skillset)
SkillsetCell(ok) ==
    /\ cell = "skillset"
    /\ IF ok
       THEN /\ service' = [service EXCEPT !.skillset = Some(SkillsetDef(config[1]))]
            /\ setup_calls' = Append(setup_calls, CallOk("create_or_update_skillset"))
            /\ cell' = "indexer"
            /\ UNCHANGED setup_error
       ELSE /\ setup_calls' = Append(setup_calls, CallFailed("create_or_update_skillset"))
            /\ setup_error' = Some([type |-> "HttpResponseError", name |-> "create_or_update_skillset"])
            /\ cell' = "failed"
            /\ UNCHANGED service
    /\ UNCHANGED <<env, config, storage, data_source, index_fields, planner_prompt,
                   openai_client, hybrid_results, first_run, runs>>
    /\ UNCHANGED callVars

\* variant: the cell polls the indexer status until the run has finished
IndexerCell_waits(fail_at) ==
    /\ cell = "indexer"
    /\ IF fail_at = 0
       THEN /\ service' = [service EXCEPT !.indexer = Some(IndexerDef(config[1], data_source[1])),
                                          !.status = "finished",
                                          !.docs = DocsOf(storage.blobs)]
            /\ setup_calls' = setup_calls \o <<CallOk("create_or_update_indexer"), CallOk("run_indexer")>>
            /\ cell' = "hybrid"
            /\ UNCHANGED setup_error
       ELSE /\ setup_calls' = Append(setup_calls, CallFailed("create_or_update_indexer"))
            /\ setup_error' = Some([type |-> "HttpResponseError", name |-> "create_or_update_indexer"])
            /\ cell' = "failed"
            /\ UNCHANGED service
    /\ UNCHANGED <<env, config, storage, data_source, index_fields, planner_prompt,
                   openai_client, hybrid_results, first_run, runs>>
    /\ UNCHANGED callVars

\* variant: the run is triggered first and whatever the creation answers
IndexerCell_runs(fail_at) ==
    /\ cell = "indexer"
    /\ IF fail_at = 0
       THEN /\ service' = [service EXCEPT !.indexer = Some(IndexerDef(config[1], data_source[1])),
                                          !.status = "running"]
            /\ setup_calls' = setup_calls \o <<CallOk("run_indexer"), CallOk("create_or_update_indexer")>>
            /\ cell' = "hybrid"
            /\ UNCHANGED setup_error
       ELSE /\ service' = [service EXCEPT !.status = "running"]
            /\ setup_calls' = setup_calls \o <<CallFailed("create_or_update_indexer"), CallOk("run_indexer")>>
            /\ setup_error' = Some([type |-> "HttpResponseError", name |-> "create_or_update_indexer"])
            /\ cell' = "failed"
    /\ UNCHANGED <<env, config, storage, data_source, index_fields, planner_prompt,
                   openai_client, hybrid_results, first_run, runs>>
    /\ UNCHANGED callVars

\* indexer_client.create_or_update_indexer(indexer);
\* indexer_client.run_indexer(indexer_name): the cell is over once the
\* service has accepted the run
IndexerCell(fail_at) ==
    /\ cell = "indexer"
    /\ IF fail_at = 0
       THEN /\ service' = [service EXCEPT !.indexer = Some(IndexerDef(config[1], data_source[1])),
                                          !.status = "running"]
            /\ setup_calls' = setup_calls \o <<CallOk("create_or_update_indexer"), CallOk("run_indexer")>>
            /\ cell' = "hybrid"
            /\ UNCHANGED setup_error
       ELSE IF fail_at = 1
       THEN /\ setup_calls' = Append(setup_calls, CallFailed("create_or_update_indexer"))
            /\ setup_error' = Some([type |-> "HttpResponseError", name |-> "create_or_update_indexer"])
            /\ cell' = "failed"
            /\ UNCHANGED service
       ELSE /\ service' = [service EXCEPT !.indexer = Some(IndexerDef(config[1], data_source[1]))]
            /\ setup_calls' = setup_calls \o <<CallOk("create_or_update_indexer"), CallFailed("run_indexer")>>
            /\ setup_error' = Some([type |-> "HttpResponseError", name |-> "run_indexer"])
            /\ cell' = "failed"
    /\ UNCHANGED <<env, config, storage, data_source, index_fields, planner_prompt,
                   openai_client, hybrid_results, first_run, runs>>
    /\ UNCHANGED callVars

\* the search service ends the indexer run: the rows of the blobs are documents
IndexerFinishes ==
    /\ service.status = "running"
    /\ service' = [service EXCEPT !.status = "finished", !.docs = DocsOf(storage.blobs)]
    /\ UNCHANGED <<env, config, cell, setup_error, setup_calls, storage, data_source,
                   index_fields, planner_prompt, openai_client, hybrid_results,
                   first_run, runs>>
    /\ UNCHANGED callVars

\* the hybrid search cell prints the rows the index holds for its query
HybridSearchCell ==
    /\ cell = "hybrid"
    /\ \E rows \in HybridListings(service.docs) : hybrid_results' = Some(rows)
    /\ setup_calls' = Append(setup_calls, CallOk("search"))
    /\ cell' = "define"
    /\ UNCHANGED <<env, config, setup_error, storage, service, data_source,
                   index_fields, planner_prompt, openai_client, first_run, runs>>
    /\ UNCHANGED callVars

\* the search of the hybrid search cell raises
HybridSearchFails ==
    /\ cell = "hybrid"
    /\ setup_calls' = Append(setup_calls, CallFailed("search"))
    /\ setup_error' = Some([type |-> "HttpResponseError", name |-> "search"])
    /\ cell' = "failed"
    /\ UNCHANGED <<env, config, storage, service, data_source, index_fields,
                   planner_prompt, openai_client, hybrid_results, first_run, runs>>
    /\ UNCHANGED callVars

\* the cell that creates the AzureOpenAI client and defines QueryOptions,
\* the prompts, get_query_options and answer_query
DefineCell ==
    /\ cell = "define"
    /\ openai_client' = Some(OpenAIClient(config[1]))
    /\ planner_prompt' = SystemPromptOf(index_fields)
    /\ cell' = "ready"
    /\ UNCHANGED <<env, config, setup_error, setup_calls, storage, service, data_source,
                   index_fields, hybrid_results, first_run, runs>>
    /\ UNCHANGED callVars

\* the notebook is run again from its first cell against the same services
RunAgain ==
    /\ cell \in {"ready", "failed"}
    /\ pc = "idle"
    /\ runs < MaxRuns
    /\ runs' = runs + 1
    /\ cell' = "config"
    /\ setup_error' = None
    /\ setup_calls' = <<>>
    /\ first_run' = IF first_run = None /\ cell = "ready" THEN Some(Resources) ELSE first_run
    /\ UNCHANGED <<env, config, storage, service, data_source, index_fields,
                   planner_prompt, openai_client, hybrid_results>>
    /\ UNCHANGED callVars

----------------------------------------------------------------------------
(* The state machine *)

Event(call, event) == [call |-> call, event |-> event]

\* no call of answer_query is running
InitCall ==
    /\ pc = "idle"
    /\ query = None
    /\ query_options = None
    /\ plan_request = None
    /\ planner_reply = None
    /\ search_request = None
    /\ search_results = None
    /\ results_markdown_table = None
    /\ chat_request = None
    /\ answer_reply = None
    /\ returned = None
    /\ raised = None
    /\ calls = <<>>
    /\ history = <<>>

\* the services as a complete run of the cells up to the hybrid search
\* leaves them for the environment e and the schema fs, the indexer run over
InitProvisioned(e, fs) ==
    /\ env = e
    /\ config = Some(LoadConfig(e))
    /\ setup_error = None
    /\ setup_calls = <<>>
    /\ storage = [container |-> TRUE, blobs |-> {LocalFile}]
    /\ data_source = Some(DataSourceDef(LoadConfig(e)))
    /\ service = [data_source |-> Some(DataSourceDef(LoadConfig(e))),
                  index |-> Some(IndexDef(LoadConfig(e), fs)),
                  skillset |-> Some(SkillsetDef(LoadConfig(e))),
                  indexer |-> Some(IndexerDef(LoadConfig(e), DataSourceDef(LoadConfig(e)))),
                  status |-> "finished",
                  docs |-> DocsOf({LocalFile})]
    /\ hybrid_results = Some(<<>>)
    /\ first_run = None
    /\ runs = 1

\* no cell has run yet
InitFresh ==
    /\ config = None
    /\ cell = "config"
    /\ setup_error = None
    /\ setup_calls = <<>>
    /\ service = EmptyService
    /\ data_source = None
    /\ index_fields = <<>>
    /\ planner_prompt = <<>>
    /\ openai_client = None
    /\ hybrid_results = None
    /\ first_run = None
    /\ runs = 1

\* every cell above the sample questions has run
Init ==
    /\ InitCall
    /\ InitProvisioned(SampleEnv, fields)
    /\ cell = "ready"
    /\ index_fields = fields
    /\ planner_prompt = query_options_system_prompt
    /\ openai_client = Some(OpenAIClient(LoadConfig(SampleEnv)))

\* a cell calls answer_query(q); get_query_options sends the planning request
AnswerQuery(q) ==
    /\ pc = "idle"
    /\ cell = "ready"
    /\ UNCHANGED notebookVars
    /\ Len(history) < MaxCalls
    /\ pc' = "plan_call"
    /\ query' = Some(q)
    /\ plan_request' = Some([model |-> config[1].azure_openai_chat_deployment,
                             messages |-> PlanMessages(q),
                             response_format |-> "QueryOptions"])
    /\ calls' = <<Event("plan", "start")>>
    /\ UNCHANGED <<query_options, planner_reply, search_request, search_results,
                   results_markdown_table, chat_request, answer_reply,
                   returned, raised, history>>

\* variant: a plan without search text, filter and order-by skips the search
PlanReturns_shortcut(parsed) ==
    /\ pc = "plan_call"
    /\ UNCHANGED notebookVars
    /\ planner_reply' = Some(parsed)
    /\ query_options' = parsed
    /\ IF parsed = None
       THEN /\ pc' = "raised"
            /\ raised' = Some("AttributeError")
            /\ calls' = Append(calls, Event("plan", "end"))
            /\ UNCHANGED <<search_request, search_results, results_markdown_table, chat_request>>
       ELSE IF parsed[1].search = None /\ parsed[1].filter = None /\ parsed[1].orderBy = None
       THEN /\ pc' = "answer_call"
            /\ search_results' = Some(<<>>)
            /\ results_markdown_table' = Some(ToMarkdown(Results(<<>>)))
            /\ chat_request' = Some([model |-> config[1].azure_openai_chat_deployment,
                                     messages |-> AnswerMessages(ToMarkdown(Results(<<>>)), query[1])])
            /\ calls' = calls \o <<Event("plan", "end"), Event("answer", "start")>>
            /\ UNCHANGED <<search_request, raised>>
       ELSE /\ pc' = "search_call"
            /\ search_request' = Some(SearchArgs(parsed[1]))
            /\ calls' = calls \o <<Event("plan", "end"), Event("search", "start")>>
            /\ UNCHANGED <<raised, search_results, results_markdown_table, chat_request>>
    /\ UNCHANGED <<query, plan_request, answer_reply, returned, history>>

\* the planning call returns message.parsed; answer_query reads the plan's
\* fields (AttributeError on None), builds the arguments and sends the search
PlanReturns(parsed) ==
    /\ pc = "plan_call"
    /\ UNCHANGED notebookVars
    /\ planner_reply' = Some(parsed)
    /\ query_options' = parsed
    /\ IF parsed = None
       THEN /\ pc' = "raised"
            /\ raised' = Some("AttributeError")
            /\ calls' = Append(calls, Event("plan", "end"))
            /\ UNCHANGED search_request
       ELSE /\ pc' = "search_call"
            /\ search_request' = Some(SearchArgs(parsed[1]))
            /\ calls' = calls \o <<Event("plan", "end"), Event("search", "start")>>
            /\ UNCHANGED raised
    /\ UNCHANGED <<query, plan_request, search_results, results_markdown_table,
                   chat_request, answer_reply, returned, history>>

\* the planning call raises; nothing catches it
PlanRaises ==
    /\ pc = "plan_call"
    /\ UNCHANGED notebookVars
    /\ pc' = "raised"
    /\ raised' = Some("planning call failed")
    /\ calls' = Append(calls, Event("plan", "fail"))
    /\ UNCHANGED <<query, query_options, plan_request, planner_reply,
                   search_request, search_results, results_markdown_table,
                   chat_request, answer_reply, returned, history>>

\* variant: an empty result set is searched for once more
SearchReturns_retry(rows) ==
    /\ pc = "search_call"
    /\ UNCHANGED notebookVars
    /\ search_results' = Some(rows)
    /\ IF rows = <<>> /\ Cardinality({i \in 1..Len(calls) : calls[i] = Event("search", "start")}) < 2
       THEN /\ pc' = "search_call"
            /\ calls' = calls \o <<Event("search", "end"), Event("search", "start")>>
            /\ UNCHANGED <<results_markdown_table, chat_request>>
       ELSE /\ results_markdown_table' = Some(ToMarkdown(Results(rows)))
            /\ chat_request' = Some([model |-> config[1].azure_openai_chat_deployment,
                                     messages |-> AnswerMessages(ToMarkdown(Results(rows)), query[1])])
            /\ pc' = "answer_call"
            /\ calls' = calls \o <<Event("search", "end"), Event("answer", "start")>>
    /\ UNCHANGED <<query, query_options, plan_request, planner_reply,
                   search_request, answer_reply, returned, raised, history>>

\* the search returns its rows; answer_query renders the table and sends the
\* answering request
SearchReturns(rows) ==
    /\ pc = "search_call"
    /\ UNCHANGED notebookVars
    /\ search_results' = Some(rows)
    /\ results_markdown_table' = Some(ToMarkdown(Results(rows)))
    /\ chat_request' = Some([model |-> config[1].azure_openai_chat_deployment,
                             messages |-> AnswerMessages(ToMarkdown(Results(rows)), query[1])])
    /\ pc' = "answer_call"
    /\ calls' = calls \o <<Event("search", "end"), Event("answer", "start")>>
    /\ UNCHANGED <<query, query_options, plan_request, planner_reply,
                   search_request, answer_reply, returned, raised, history>>

\* variant: a failed search is sent once more
SearchRaises_retry ==
    /\ pc = "search_call"
    /\ UNCHANGED notebookVars
    /\ IF Cardinality({i \in 1..Len(calls) : calls[i] = Event("search", "start")}) < 2
       THEN /\ pc' = "search_call"
            /\ calls' = calls \o <<Event("search", "fail"), Event("search", "start")>>
            /\ UNCHANGED raised
       ELSE /\ pc' = "raised"
            /\ raised' = Some("search call failed")
            /\ calls' = Append(calls, Event("search", "fail"))
    /\ UNCHANGED <<query, query_options, plan_request, planner_reply,
                   search_request, search_results, results_markdown_table,
                   chat_request, answer_reply, returned, history>>

\* the search raises; nothing catches it
SearchRaises ==
    /\ pc = "search_call"
    /\ UNCHANGED notebookVars
    /\ pc' = "raised"
    /\ raised' = Some("search call failed")
    /\ calls' = Append(calls, Event("search", "fail"))
    /\ UNCHANGED <<query, query_options, plan_request, planner_reply,
                   search_request, search_results, results_markdown_table,
                   chat_request, answer_reply, returned, history>>

\* the answering call returns; answer_query returns its tuple
AnswerReturns(content) ==
    /\ pc = "answer_call"
    /\ UNCHANGED notebookVars
    /\ answer_reply' = Some(content)
    /\ returned' = Some(ReturnValue(content, query_options[1], results_markdown_table[1]))
    /\ pc' = "returned"
    /\ calls' = Append(calls, Event("answer", "end"))
    /\ UNCHANGED <<query, query_options, plan_request, planner_reply,
                   search_request, search_results, results_markdown_table,
                   chat_request, raised, history>>

\* the answering call raises; nothing catches it
AnswerRaises ==
    /\ pc = "answer_call"
    /\ UNCHANGED notebookVars
    /\ pc' = "raised"
    /\ raised' = Some("answering call failed")
    /\ calls' = Append(calls, Event("answer", "fail"))
    /\ UNCHANGED <<query, query_options, plan_request, planner_reply,
                   search_request, search_results, results_markdown_table,
                   chat_request, answer_reply, returned, history>>

\* the locals of a call that is over are gone
Forget ==
    /\ pc' = "idle"
    /\ query' = None
    /\ query_options' = None
    /\ plan_request' = None
    /\ planner_reply' = None
    /\ search_request' = None
    /\ search_results' = None
    /\ results_markdown_table' = None
    /\ chat_request' = None
    /\ answer_reply' = None
    /\ returned' = None
    /\ raised' = None
    /\ calls' = <<>>
    /\ UNCHANGED notebookVars

\* the cell that called answer_query is over; the next cell can run
NextCell ==
    /\ pc \in {"returned", "raised"}
    /\ Forget
    /\ UNCHANGED history

Next ==
    \/ \E q \in Queries : AnswerQuery(q)
    \/ \E parsed \in ParsedSet : PlanReturns(parsed)
    \/ PlanRaises
    \/ \E rows \in ResultSets : SearchReturns(rows)
    \/ SearchRaises
    \/ \E content \in Answers : AnswerReturns(content)
    \/ AnswerRaises
    \/ NextCell

Spec == Init /\ [][Next]_vars

----------------------------------------------------------------------------
(* A run whose finished calls are observed, over few responses *)

\* what an observer keeps of a finished call: what went in and what came out
Observation ==
    [query |-> query,
     planner_reply |-> planner_reply,
     search_results |-> search_results,
     answer_reply |-> answer_reply,
     failed |-> {calls[i].call : i \in {k \in 1..Len(calls) : calls[k].event = "fail"}},
     plan_request |-> plan_request,
     search_request |-> search_request,
     chat_request |-> chat_request,
     returned |-> returned,
     raised |-> raised]

\* the cell is over and the observer notes the call down
NextCellObserved ==
    /\ pc \in {"returned", "raised"}
    /\ history' = Append(history, Observation)
    /\ Forget

ObservedParsed ==
    { Some([orderBy |-> Some(<<"Age">>), filter |-> None, search |-> Some(<<"Alice">>)]),
      Some([orderBy |-> None, filter |-> Some(<<[field |-> "Age", cmp |-> "gt 40"]>>), search |-> Some(<<"*">>)]) }

ObservedResultSets == {<<r>> : r \in SampleRows}

ObservedAnswers == {"I don't know"}

NextObserved ==
    \/ \E q \in Queries : AnswerQuery(q)
    \/ \E parsed \in ObservedParsed : PlanReturns(parsed)
    \/ PlanRaises
    \/ \E rows \in ObservedResultSets : SearchReturns(rows)
    \/ SearchRaises
    \/ \E content \in ObservedAnswers : AnswerReturns(content)
    \/ AnswerRaises
    \/ NextCellObserved

SpecObserved == Init /\ [][NextObserved]_vars

----------------------------------------------------------------------------
(* Properties *)

Count(call, event) ==
    Cardinality({i \in 1..Len(calls) : calls[i] = Event(call, event)})

\* outbound calls started and not yet over
InFlight ==
    Cardinality({i \in 1..Len(calls) : calls[i].event = "start"})
    - Cardinality({i \in 1..Len(calls) : calls[i].event # "start"})

\* the plan the planning call returned
Plan == planner_reply[1][1]

\* the text of the vector query of a search request, None without one
VectorText(request) ==
    IF request.vector_queries = None THEN None
    ELSE Some(request.vector_queries[1][1].text)

\* C1: at most one outbound call is in flight at any time, and a call of
\* answer_query that has returned made exactly the planning call, the search
\* call and the answering call, each started after the one before it ended.
C1_SequentialCalls ==
    /\ InFlight <= 1
    /\ pc = "returned" =>
         calls = << Event("plan", "start"),   Event("plan", "end"),
                    Event("search", "start"), Event("search", "end"),
                    Event("answer", "start"), Event("answer", "end") >>

C1_Witness == pc = "returned" /\ Len(calls) = 6

\* C2: a failed outbound call is the last outbound call of answer_query: it
\* was started once, nothing is started after it, answer_query raises its
\* error and returns no tuple.
C2_FailurePropagates ==
    \A i \in 1..Len(calls) :
        calls[i].event = "fail" =>
            /\ i = Len(calls)
            /\ Count(calls[i].call, "start") = 1
            /\ pc = "raised"
            /\ raised \in {Some("planning call failed"), Some("search call failed"),
                           Some("answering call failed")}
            /\ returned = None

C2_Witness ==
    /\ pc = "raised"
    /\ calls = << Event("plan", "start"), Event("plan", "end"),
                  Event("search", "start"), Event("search", "fail") >>

\* C3: when the plan's orderBy string is not a comma-separated list of
\* clauses, the search call is sent with order_by None.
C3_MalformedOrderByDropped ==
    (search_request # None /\ Malformed(Plan.orderBy)) =>
        search_request[1].order_by = None

\* the order-by argument is the plan's orderBy: None for None or "", else a
\* list that joins back to the string
OrderByPassed(request, options) ==
    IF Truthy(options.orderBy)
    THEN request.order_by # None /\ Join(request.order_by[1], ",") = options.orderBy[1]
    ELSE request.order_by = None

\* C4 as stated: the search call has the plan's search text as search text
\* and as the text of the vector query, the plan's filter, the plan's
\* order-by, top 5 and the five selected columns.
C4_SearchTextForBoth ==
    search_request # None =>
        /\ search_request[1].search_text = Plan.search
        /\ VectorText(search_request[1]) = Plan.search
        /\ search_request[1].filter = Plan.filter
        /\ OrderByPassed(search_request[1], Plan)
        /\ search_request[1].top = 5
        /\ search_request[1].select = <<"ID", "Age", "Name", "Title", "Description">>

\* C4 amended: as C4, but the vector query has the plan's search text only
\* when that text is neither None, empty nor "*"; otherwise the search call
\* has no vector query.
C4_SearchCallArguments ==
    search_request # None =>
        /\ search_request[1].search_text = Plan.search
        /\ IF Truthy(Plan.search) /\ Plan.search # Some(<<"*">>)
           THEN VectorText(search_request[1]) = Plan.search
           ELSE search_request[1].vector_queries = None
        /\ search_request[1].filter = Plan.filter
        /\ OrderByPassed(search_request[1], Plan)
        /\ search_request[1].top = 5
        /\ search_request[1].select = <<"ID", "Age", "Name", "Title", "Description">>

C4_Witness ==
    /\ search_request # None
    /\ Plan.search = Some(<<"*">>)
    /\ Truthy(Plan.orderBy)
    /\ Truthy(Plan.filter)

\* the value a table cell stands for
ParseCell(c, text) ==
    IF c = "Age" THEN CHOOSE n \in 0..150 : ToString(n) = text ELSE text

\* the table has the five selected columns and, line by line, the values of
\* the returned rows
TableShows(table, rows) ==
    /\ table.header = <<"ID", "Age", "Name", "Title", "Description">>
    /\ Len(table.rows) = Len(rows)
    /\ \A i \in 1..Len(rows) :
          /\ Len(table.rows[i]) = 5
          /\ \A j \in 1..5 :
                ParseCell(table.header[j], table.rows[i][j]) = rows[i][table.header[j]]

C6_PlannerReturnsPlan ==
    planner_reply # None => planner_reply[1] # None

FilterableSet == {FilterableNames[i] : i \in 1..Len(FilterableNames)}

\* C7 as stated: the filter of every search call references only filterable
\* fields.
C7_FilterOnlyFilterable ==
    search_request # None => FieldsOf(search_request[1].filter) \subseteq FilterableSet

\* C7 amended: the filter of every search call references exactly the fields
\* the plan's filter references, so only filterable fields exactly when the
\* planner kept to them.
C7_FilterFieldsOfPlan ==
    search_request # None =>
        /\ FieldsOf(search_request[1].filter) = FieldsOf(Plan.filter)
        /\ (FieldsOf(search_request[1].filter) \subseteq FilterableSet
              <=> FieldsOf(Plan.filter) \subseteq FilterableSet)

C7_Witness ==
    /\ search_request # None
    /\ FieldsOf(Plan.filter) = {"Age"}

\* C8: after an empty result set, answer_query has made one planning call
\* and one search call, has sent the table of the empty result to the
\* answering call, and returns that call's answer.
C8_EmptyResultNoRetry ==
    search_results = Some(<<>>) =>
        /\ Count("plan", "start") = 1
        /\ Count("search", "start") = 1
        /\ Count("answer", "start") = 1
        /\ chat_request # None
        /\ chat_request[1].messages[2].content.rows = <<>>
        /\ pc \in {"answer_call", "returned", "raised"}
        /\ pc = "returned" => returned[1].answer = answer_reply[1]
        /\ pc = "raised" => calls[Len(calls)] = Event("answer", "fail")

C8_Witness == search_results = Some(<<>>) /\ pc = "returned"

\* C9: the returned tuple holds the answering call's text, the plan as the
\* planning call returned it, which is the plan of the search call, and the
\* table as sent to the answering call.
C9_ReturnedTuple ==
    pc = "returned" =>
        /\ returned[1].answer = answer_reply[1]
        /\ returned[1].query_options = Plan
        /\ search_request[1].search_text = returned[1].query_options.search
        /\ search_request[1].filter = returned[1].query_options.filter
        /\ OrderByPassed(search_request[1], returned[1].query_options)
        /\ returned[1].results = chat_request[1].messages[2].content

C9_Witness ==
    /\ pc = "returned"
    /\ Plan.search = None
    /\ Len(search_results[1]) > 0

SameInputs(a, b) ==
    /\ a.query = b.query
    /\ a.planner_reply = b.planner_reply
    /\ a.search_results = b.search_results
    /\ a.answer_reply = b.answer_reply
    /\ a.failed = b.failed

SameOutputs(a, b) ==
    /\ a.plan_request = b.plan_request
    /\ a.search_request = b.search_request
    /\ a.chat_request = b.chat_request
    /\ a.returned = b.returned
    /\ a.raised = b.raised

\* C10: two calls of a run on the same question that get the same responses
\* send the same requests and end the same way, whatever calls came before
\* each of them.
C10_Stateless ==
    \A i, j \in 1..Len(history) :
        SameInputs(history[i], history[j]) => SameOutputs(history[i], history[j])

C10_Witness ==
    /\ Len(history) = 3
    /\ SameInputs(history[1], history[3])
    /\ ~SameInputs(history[1], history[2])
    /\ history[3].returned # None
    /\ history[2].returned # None

\* the table of a call gives the answering model nothing to answer from
NoGrounding == search_results = Some(<<>>)

\* C15 as stated: when the table sent to the answering model cannot answer
\* the question (here: it is empty), the answer answer_query returns is the
\* sentinel "I don't know".
C15_UnknownSentinel ==
    (pc = "returned" /\ NoGrounding) => returned[1].answer = "I don't know"

\* C15 amended: the answering call carries the system instruction to say
\* I don't know when the results cannot answer the question, and
\* answer_query returns the model's reply as it is: the sentinel exactly
\* when the model replied with it.
C15_InstructedNotEnforced ==
    /\ chat_request # None =>
          /\ chat_request[1].messages[1].role = "system"
          /\ chat_request[1].messages[1].content = answer_query_results_system_prompt
          /\ chat_request[1].messages[2].content = results_markdown_table[1]
          /\ chat_request[1].messages[3].content = query[1]
    /\ pc = "returned" =>
          (returned[1].answer = "I don't know" <=> answer_reply = Some("I don't know"))

C15_Witness ==
    /\ pc = "returned"
    /\ NoGrounding
    /\ returned[1].answer = "I don't know"

\* C18: the search call has a vector query exactly when the plan's search
\* text is present, not empty and not "*"; there is then one vector query
\* and its text is the keyword search text.
C18_VectorQueryIff ==
    search_request # None =>
        /\ search_request[1].vector_queries # None
              <=> Plan.search \notin {None, Some(<<>>), Some(<<"*">>)}
        /\ search_request[1].vector_queries # None =>
              /\ Len(search_request[1].vector_queries[1]) = 1
              /\ search_request[1].search_text # None
              /\ search_request[1].vector_queries[1][1].text = search_request[1].search_text[1]

C18_Witness ==
    /\ search_request # None
    /\ search_request[1].vector_queries # None
    /\ Plan.search = Some(<<"Alice">>)

----------------------------------------------------------------------------
(* The sample question about the youngest employee, with a search service
   that orders its rows *)

\* the five rows printed for "Who is the youngest employee?"
FiveRows ==
    { Row("0.016", "2", 20, "Jane Smith", "Veterinarian", "Provides medical care to animals"),
      Row("0.016", "15", 21, "Isabella Martin", "Researcher", "Conducts research on wildlife"),
      Row("0.016", "4", 23, "Robert Brown", "Tour Guide", "Guides visitors through the zoo"),
      Row("0.016", "3", 23, "Alice Johnson", "Animal Trainer", "Trains animals for performances"),
      Row("0.016", "11", 26, "Olivia Thomas", "Facilities Manager", "Manages zoo facilities") }

\* the plans printed for the first two sample questions
SamplePlans ==
    { [orderBy |-> Some(<<"Age asc">>), filter |-> None, search |-> Some(<<"Employee">>)],
      [orderBy |-> None, filter |-> None, search |-> Some(<<"marketing updates zoo">>)] }

\* the orders in which the service can list the documents docs
Listings(docs) ==
    {l \in [1..Cardinality(docs) -> docs] : \A i, j \in 1..Cardinality(docs) : i # j => l[i] # l[j]}

AscendingByAge(l) == \A i \in 1..(Len(l) - 1) : l[i]["Age"] <= l[i + 1]["Age"]

\* what the search service answers to a request over matching documents
\* docs: at most top rows, by ascending Age for order_by ["Age asc"], else in
\* the order of its own ranking
ServiceResults(request, docs) ==
    LET ordered == IF request.order_by = Some(<< <<"Age asc">> >>)
                   THEN {l \in Listings(docs) : AscendingByAge(l)}
                   ELSE Listings(docs)
    IN  {SubSeq(l, 1, IF Len(l) > request.top THEN request.top ELSE Len(l)) : l \in ordered}

\* the search returns the rows the service lists for the request
SearchReturnsListed ==
    /\ pc = "search_call"
    /\ \E docs \in SUBSET FiveRows :
          \E rows \in ServiceResults(search_request[1], docs) : SearchReturns(rows)

NextListed ==
    \/ \E q \in Queries : AnswerQuery(q)
    \/ \E options \in SamplePlans : PlanReturns(Some(options))
    \/ PlanRaises
    \/ SearchReturnsListed
    \/ SearchRaises
    \/ \E content \in Answers : AnswerReturns(content)
    \/ AnswerRaises
    \/ NextCell

SpecListed == Init /\ [][NextListed]_vars

\* C16: for a plan with order-by 'Age asc' and no filter the search call has
\* order_by ['Age asc'] and filter None, and the table lists the returned
\* rows in their order, by ascending age: for the rows of ages 20, 21, 23,
\* 23, 26 its first line is the row of age 20.
C16_YoungestFirst ==
    (planner_reply # None /\ planner_reply[1] # None
       /\ Plan.orderBy = Some(<<"Age asc">>) /\ Plan.filter = None) =>
        /\ search_request # None
        /\ search_request[1].order_by = Some(<< <<"Age asc">> >>)
        /\ search_request[1].filter = None
        /\ results_markdown_table # None =>
              LET table == results_markdown_table[1]
                  rows == search_results[1]
              IN  /\ Len(table.rows) = Len(rows)
                  /\ \A i \in 1..Len(rows) :
                        /\ table.rows[i][1] = rows[i]["ID"]
                        /\ table.rows[i][2] = ToString(rows[i]["Age"])
                  /\ \A i \in 1..(Len(rows) - 1) :
                        ParseCell("Age", table.rows[i][2]) <= ParseCell("Age", table.rows[i + 1][2])
                  /\ [i \in 1..Len(rows) |-> rows[i]["Age"]] = <<20, 21, 23, 23, 26>> =>
                        /\ table.rows[1][2] = "20"
                        /\ table.rows[1][3] = "Jane Smith"

C16_Witness ==
    /\ results_markdown_table # None
    /\ Plan.orderBy = Some(<<"Age asc">>)
    /\ Plan.filter = None
    /\ Len(search_results[1]) = 5
    /\ results_markdown_table[1].rows[1][3] = "Jane Smith"

----------------------------------------------------------------------------
(* The field list of the planning prompt, over the schemas that give the
   fields of the index any filterable flags *)

Schemas ==
    { [i \in 1..Len(fields) |-> [name |-> fields[i].name, filterable |-> flag[i]]] :
        flag \in [1..Len(fields) -> BOOLEAN] }

\* the cells above the one that defines the prompt have run
InitSchema ==
    /\ InitCall
    /\ \E fs \in Schemas :
          /\ InitProvisioned(SampleEnv, fs)
          /\ index_fields = fs
    /\ cell = "define"
    /\ planner_prompt = <<>>
    /\ openai_client = None

NextSchema ==
    \/ DefineCell
    \/ \E q \in Queries : AnswerQuery(q)
    \/ \E parsed \in ObservedParsed : PlanReturns(parsed)
    \/ PlanRaises
    \/ \E rows \in ObservedResultSets : SearchReturns(rows)
    \/ SearchRaises
    \/ \E content \in ObservedAnswers : AnswerReturns(content)
    \/ AnswerRaises
    \/ NextCell

SpecSchema == InitSchema /\ [][NextSchema]_vars

\* the field names a planning prompt lists between its two sentences
ListedNames(prompt) ==
    SelectSeq(SubSeq(prompt, 2, Len(prompt) - 1), LAMBDA x : x # ", ")

\* where the schema has the field called name
SchemaPosition(name) == CHOOSE i \in 1..Len(index_fields) : index_fields[i].name = name

\* the list names the filterable fields of the schema and no other field,
\* each once, in the order of the schema
ListsFilterable(listed) ==
    /\ Range(listed) = {index_fields[i].name : i \in {k \in 1..Len(index_fields) : index_fields[k].filterable}}
    /\ \A i, j \in 1..Len(listed) : i < j => SchemaPosition(listed[i]) < SchemaPosition(listed[j])

\* C17: the field list in the planner's system instruction is a function of
\* the index schema alone: it names exactly the filterable fields, each
\* once, in schema order, and no field that is not filterable; the prompt
\* is computed by the defining cell only, and the system message of every
\* planning request, whatever the question, is that prompt.
C17_FilterableFieldList ==
    /\ [](/\ cell = "ready" => ListsFilterable(ListedNames(planner_prompt))
          /\ cell = "ready" /\ index_fields = fields =>
                ListedNames(planner_prompt) = <<"ID", "Name", "Age">>
          /\ plan_request # None =>
                /\ plan_request[1].messages[1].role = "system"
                /\ plan_request[1].messages[1].content = planner_prompt
                /\ ListsFilterable(ListedNames(plan_request[1].messages[1].content)))
    /\ [][planner_prompt' # planner_prompt => cell = "define"]_vars

C17_Witness ==
    /\ plan_request # None
    /\ ~index_fields[4].filterable
    /\ index_fields[5].filterable
    /\ index_fields[2].filterable
    /\ index_fields # fields

----------------------------------------------------------------------------
(* The notebook run once from its first cell, over the environments, with
   services that answer every call *)

InitConfig ==
    /\ InitCall
    /\ InitFresh
    /\ env \in Envs
    /\ storage \in InitialStorages

NextConfig ==
    \/ ConfigCell
    \/ UploadCell(0)
    \/ DataSourceCell(TRUE)
    \/ IndexCell(TRUE)
    \/ SkillsetCell(TRUE)
    \/ IndexerCell(0)
    \/ IndexerFinishes
    \/ HybridSearchCell
    \/ DefineCell
    \/ \E q \in Queries : AnswerQuery(q)
    \/ \E parsed \in ObservedParsed : PlanReturns(parsed)
    \/ PlanRaises
    \/ \E rows \in ObservedResultSets : SearchReturns(rows)
    \/ SearchRaises
    \/ \E content \in ObservedAnswers : AnswerReturns(content)
    \/ AnswerRaises
    \/ NextCell

SpecConfig == InitConfig /\ [][NextConfig]_vars

\* the required names the environment does not have
MissingRequired == {name \in Range(RequiredNames) : env[name] = None}

\* C11: when a required configuration value is missing, the configuration
\* cell raises (a KeyError naming a missing value), no global of the cell
\* is usable by a later cell, and no call to storage, to the search service
\* or to a model has been made.
C11_MissingConfigFailsFast ==
    MissingRequired # {} =>
        /\ cell \in {"config", "failed"}
        /\ cell = "failed" =>
              /\ setup_error # None
              /\ setup_error[1].type = "KeyError"
              /\ setup_error[1].name \in MissingRequired
        /\ config = None
        /\ setup_calls = <<>>
        /\ calls = <<>>
        /\ plan_request = None
        /\ storage \in InitialStorages
        /\ service = EmptyService
        /\ openai_client = None

C11_Witness ==
    /\ cell = "failed"
    /\ env["BLOB_CONNECTION_STRING"] = None
    /\ setup_error = Some([type |-> "KeyError", name |-> "BLOB_CONNECTION_STRING"])

\* the default of a global of the configuration cell, read off the loaded
\* configuration c
UsesDefaults(c) ==
    /\ env["AZURE_SEARCH_INDEX"] = None => c.index_name = "csv-vec"
    /\ env["BLOB_CONTAINER_NAME"] = None => c.blob_container_name = "csv-vec"
    /\ env["SEARCH_BLOB_DATASOURCE_CONNECTION_STRING"] = None =>
          c.search_blob_connection_string = c.blob_connection_string
    /\ env["AZURE_OPENAI_EMBEDDING_DEPLOYMENT"] = None =>
          c.azure_openai_embedding_deployment = "text-embedding-3-large"
    /\ env["AZURE_OPENAI_EMBEDDING_MODEL_NAME"] = None =>
          c.azure_openai_model_name = "text-embedding-3-large"
    /\ env["AZURE_OPENAI_EMBEDDING_DIMENSIONS"] = None =>
          c.azure_openai_model_dimensions = 1024
    /\ env["AZURE_OPENAI_CHATGPT_DEPLOYMENT"] = None =>
          c.azure_openai_chat_deployment = "gpt-4o"
    /\ env["AZURE_OPENAI_API_VERSION"] = None => c.azure_openai_api_version = "2024-10-21"

AbsentOrEmpty(name) == env[name] = None \/ env[name] = Some("")

\* C12: an absent optional value does not make loading fail and gives the
\* fixed default; the search credential is the ambient identity when the
\* admin key is absent or empty and the key credential otherwise; the
\* model client gets the token provider when the OpenAI key is absent or
\* empty and authenticates with the key otherwise: one mechanism per client.
C12_DefaultsAndCredentials ==
    /\ cell = "failed" =>
          \/ MissingRequired # {}
          \/ env["AZURE_OPENAI_EMBEDDING_DIMENSIONS"] # None
    /\ config # None =>
          /\ UsesDefaults(config[1])
          /\ IF AbsentOrEmpty("AZURE_SEARCH_ADMIN_KEY")
             THEN config[1].credential.kind = "DefaultAzureCredential"
             ELSE /\ config[1].credential.kind = "AzureKeyCredential"
                  /\ config[1].credential.key = env["AZURE_SEARCH_ADMIN_KEY"]
    /\ openai_client # None =>
          /\ openai_client[1].api_version = config[1].azure_openai_api_version
          /\ IF AbsentOrEmpty("AZURE_OPENAI_KEY")
             THEN /\ openai_client[1].azure_ad_token_provider # None
                  /\ ~TruthyValue(openai_client[1].api_key)
             ELSE /\ openai_client[1].azure_ad_token_provider = None
                  /\ openai_client[1].api_key = env["AZURE_OPENAI_KEY"]
    /\ plan_request # None =>
          plan_request[1].model = config[1].azure_openai_chat_deployment

C12_Witness ==
    /\ plan_request # None
    /\ env["AZURE_SEARCH_ADMIN_KEY"] = Some("")
    /\ env["AZURE_OPENAI_KEY"] = None
    /\ env["AZURE_SEARCH_INDEX"] = None

----------------------------------------------------------------------------
(* Runs of the provisioning cells against services that can fail any call *)

\* the calls of upload_sample_documents are at most four
MaxUploadCalls == 4

InitSetup ==
    /\ InitCall
    /\ InitFresh
    /\ env = SampleEnv
    /\ storage \in InitialStorages

NextSetup ==
    \/ ConfigCell
    \/ \E fail_at \in 0..MaxUploadCalls : UploadCell(fail_at)
    \/ \E ok \in BOOLEAN : DataSourceCell(ok)
    \/ \E ok \in BOOLEAN : IndexCell(ok)
    \/ \E ok \in BOOLEAN : SkillsetCell(ok)
    \/ \E fail_at \in 0..2 : IndexerCell(fail_at)
    \/ IndexerFinishes
    \/ HybridSearchCell
    \/ HybridSearchFails
    \/ DefineCell
    \/ RunAgain

SpecSetup == InitSetup /\ [][NextSetup]_vars

\* positions of the calls of op in the log of the run
Issued(op) == {i \in 1..Len(setup_calls) : setup_calls[i].op = op}

Succeeded(op) == {i \in 1..Len(setup_calls) : setup_calls[i] = CallOk(op)}

\* C19: in every run the indexer is created or updated only after the data
\* source, the index and the skillset it names have been created or
\* updated, the indexer run is triggered only right after the indexer was
\* created or updated, and a call that fails is the last call of the run.
C19_DependencyOrder ==
    /\ \A i \in Issued("create_or_update_indexer") :
          /\ \E k \in Succeeded("create_or_update_data_source_connection") : k < i
          /\ \E k \in Succeeded("create_or_update_index") : k < i
          /\ \E k \in Succeeded("create_or_update_skillset") : k < i
    /\ \A i \in Issued("run_indexer") :
          i > 1 /\ setup_calls[i - 1] = CallOk("create_or_update_indexer")
    /\ \A i \in 1..Len(setup_calls) :
          setup_calls[i].result = "fail" => i = Len(setup_calls) /\ cell = "failed"
    /\ service.indexer # None =>
          /\ service.data_source # None
          /\ service.index # None
          /\ service.skillset # None
          /\ service.indexer[1].data_source_name = service.data_source[1].name
          /\ service.indexer[1].target_index_name = service.index[1].name
          /\ service.indexer[1].skillset_name = service.skillset[1].name
    /\ service.status # "never run" => service.indexer # None

C19_Witness ==
    /\ Succeeded("run_indexer") # {}
    /\ runs = 1

\* C13: a run of the setup cells against what an earlier complete run
\* provisioned never raises because a resource exists already, and leaves
\* the container, its blobs and the data source, index, skillset and
\* indexer definitions as the first run left them.
C13_RerunIdempotent ==
    /\ setup_error # None => setup_error[1].type = "HttpResponseError"
    /\ \A i \in 1..Len(setup_calls) :
          setup_calls[i].result = "fail" => setup_error[1].name = setup_calls[i].op
    /\ first_run # None => Resources = first_run[1]

C13_Witness ==
    /\ runs = 2
    /\ cell = "ready"
    /\ first_run # None
    /\ Succeeded("run_indexer") # {}
    /\ \E b \in storage.blobs : b.content = "older rows"

\* the hybrid search cell has just printed its rows
HybridSearched == cell = "hybrid" /\ cell' = "define"

\* C14: the indexer cell is over as soon as the run is triggered, with the
\* run still going; the hybrid search lists documents of the index as it
\* is at that moment, so before any run has finished it lists nothing;
\* a finished run has made the rows of the blobs documents, and a hybrid
\* search after it lists them.
C14_RunNotAwaited ==
    /\ [][cell = "indexer" /\ cell' = "hybrid" =>
             /\ service'.status = "running"
             /\ service'.docs = service.docs]_vars
    /\ [][HybridSearched =>
             /\ Range(hybrid_results'[1]) \subseteq service.docs
             /\ service.status = "finished" /\ Cardinality(service.docs) <= HybridTop =>
                   Range(hybrid_results'[1]) = DocsOf(storage.blobs)]_vars
    /\ [](/\ service.status = "never run" => service.docs = {}
          /\ service.status = "running" /\ runs = 1 => service.docs = {}
          /\ service.status = "finished" => service.docs = DocsOf(storage.blobs)
          /\ LocalFile \in storage.blobs => SampleRows \subseteq DocsOf(storage.blobs))

C14_Witness ==
    /\ cell = "ready"
    /\ runs = 1
    /\ service.status = "running"
    /\ hybrid_results = Some(<<>>)
    /\ LocalFile \in storage.blobs
====
